---- MODULE Spec2Model ----
(***************************************************************************)
(* jsmongo (src/jsmongo.js): an embedded document store with single-field  *)
(* indexes, role-based permissions and an idle-timer snapshot to disk.     *)
(*                                                                         *)
(* Names are sequences of their '.'-separated segments: "test.one" is      *)
(* <<"test", "one">>, so `${a}.${b}` is a \o b and s.split('.') is s.      *)
(* A document is a function from field names to values; all values are     *)
(* strings.  A JS object with insertion-ordered keys is a sequence.        *)
(***************************************************************************)
EXTENDS Integers, Sequences, FiniteSets, TLC

VARIABLES
    storageMode,            \* this.storageMode: "memory" or "disk"
    _databases,             \* this._databases: its keys, in insertion order
    _collections,           \* this._collections: <<[name, docs]>>, in insertion order
    _indexes,               \* this._indexes: name -> field -> key -> positions
    _changedCollections,    \* the dirty Set, in insertion order
    sinceActivity,          \* Date.now() - this._lastActivity, capped
    _idleTimer,             \* TRUE while the setInterval timer is armed
    _isDumping,             \* this._isDumping
    _isInitialized,         \* this._isInitialized
    disk,                   \* storagePath: <<dir, file>> -> serialized documents
    procs,                  \* the async invocations in flight (dump passes, close calls)
    idCount,                \* identifiers handed out by _generateUniqueId so far
    closed,                 \* TRUE once a close() call has completed
    event                   \* what the last step reported (a logged error, a settled promise)

vars == <<storageMode, _databases, _collections, _indexes, _changedCollections,
          sinceActivity, _idleTimer, _isDumping, _isInitialized, disk, procs,
          idCount, closed, event>>

----------------------------------------------------------------------------
(* Bounds of the model *)

MaxIds == 2          \* identifiers generated in one run
MaxProcs == 2        \* dump passes / close calls in flight at once

(* Program constants, in units of the timer period *)
IdleTimeout == 1

----------------------------------------------------------------------------
(* Values *)

Undefined == "<undefined>"     \* the value of a missing property
NaNValue == "<NaN>"            \* the number NaN
NullValue == "<null>"          \* null
ObjectValue == "<object>"      \* an operator object such as { $gt: 'Beta' }

IdStr == <<"id1", "id2", "id3", "id4">>
PersistedId == "id0"           \* an identifier generated by an earlier run

Get(doc, key) == IF key \in DOMAIN doc THEN doc[key] ELSE Undefined

\* { _id: id, ...doc }: the document's own _id, when it has one, wins
WithOwnId(doc, id) ==
    [f \in (DOMAIN doc) \cup {"_id"} |-> IF f \in DOMAIN doc THEN doc[f] ELSE id]

\* { ...doc, _id: id }
WithId(doc, id) ==
    [f \in (DOMAIN doc) \cup {"_id"} |-> IF f = "_id" THEN id ELSE doc[f]]

\* Object.assign(target, source)
Assign(target, source) ==
    [f \in (DOMAIN target) \cup (DOMAIN source) |->
        IF f \in DOMAIN source THEN source[f] ELSE target[f]]

\* delete obj[key]
Delete(obj, key) == [f \in (DOMAIN obj) \ {key} |-> obj[f]]

EmptyObject == [f \in {} |-> Undefined]

NoUser == [absent |-> TRUE]    \* the user argument left out
IsAbsent(user) == "absent" \in DOMAIN user

Dot(a, b) == a \o b            \* `${a}.${b}`

RECURSIVE SeqToSet(_)
SeqToSet(s) == IF s = <<>> THEN {} ELSE {Head(s)} \cup SeqToSet(Tail(s))

RECURSIVE FilterSeq(_, _)
FilterSeq(s, keep) ==
    IF s = <<>> THEN <<>>
    ELSE IF Head(s) \in keep THEN <<Head(s)>> \o FilterSeq(Tail(s), keep)
         ELSE FilterSeq(Tail(s), keep)

\* Set.add(x): insertion order, no duplicates
SetAdd(s, x) == IF x \in SeqToSet(s) THEN s ELSE Append(s, x)

----------------------------------------------------------------------------
(* this._collections *)

CollNames == {_collections[i].name : i \in DOMAIN _collections}

HasColl(full) == full \in CollNames

CollIndex(full) == CHOOSE i \in DOMAIN _collections : _collections[i].name = full

\* this._collections[full]; only where HasColl(full)
Docs(full) == _collections[CollIndex(full)].docs

\* this._collections[full] = docs
PutColl(colls, full, docs) ==
    IF \E i \in DOMAIN colls : colls[i].name = full
    THEN [i \in DOMAIN colls |->
            IF colls[i].name = full THEN [name |-> full, docs |-> docs] ELSE colls[i]]
    ELSE Append(colls, [name |-> full, docs |-> docs])

----------------------------------------------------------------------------
(* Permission Enforcer *)

\* hasPermission without its first rule (the admin wildcard), for comparison
hasPermissionByGrantOnly(user, resource, permission) ==
    IF IsAbsent(user) \/ "roles" \notin DOMAIN user THEN FALSE
    ELSE \E i \in DOMAIN user.roles :
            /\ \/ user.roles[i].resource = resource
               \/ user.roles[i].resource = <<Head(resource)>>
               \/ user.roles[i].resource = <<"*">>
            /\ permission \in user.roles[i].permissions

hasPermission(user, resource, permission) ==
    IF IsAbsent(user) \/ "roles" \notin DOMAIN user THEN FALSE
    ELSE IF \E i \in DOMAIN user.roles :
                /\ user.roles[i].resource = <<"*">>
                /\ "admin" \in user.roles[i].permissions
         THEN TRUE
         ELSE \E i \in DOMAIN user.roles :
                /\ \/ user.roles[i].resource = resource
                   \/ user.roles[i].resource = <<Head(resource)>>
                   \/ user.roles[i].resource = <<"*">>
                /\ permission \in user.roles[i].permissions

checkPermission(user, resource, permission) ==
    hasPermission(user, resource, permission)

----------------------------------------------------------------------------
(* Query Matcher.  A filter maps a field to a clause: [lit |-> v] for a    *)
(* literal v, or [ops |-> <<[op |-> "$gt", arg |-> v], ...>>] for an       *)
(* operator object, its entries in key order.                              *)

IsLiteral(clause) == "lit" \in DOMAIN clause

\* The order of < on the strings the model uses (lexicographic); an object is
\* compared as its string "[object Object]", which comes after them
ValueOrder == <<"Alpha", "Beta", "Gamma", ObjectValue>>
Rank(v) == IF \E i \in DOMAIN ValueOrder : ValueOrder[i] = v
           THEN CHOOSE i \in DOMAIN ValueOrder : ValueOrder[i] = v
           ELSE 0
Comparable(a, b) == Rank(a) > 0 /\ Rank(b) > 0

\* the comparison value when it is a string; an array compares with nothing
ArgValue(compValue) == IF "val" \in DOMAIN compValue THEN compValue.val ELSE Undefined

\* the switch with a default case that breaks instead of returning false
MatchOperatorFailOpen(docValue, operator, compValue) ==
    LET c == ArgValue(compValue) IN
    CASE operator = "$gt"  -> Comparable(docValue, c) /\ Rank(docValue) > Rank(c)
      [] operator = "$lt"  -> Comparable(docValue, c) /\ Rank(docValue) < Rank(c)
      [] operator = "$gte" -> Comparable(docValue, c) /\ Rank(docValue) >= Rank(c)
      [] operator = "$lte" -> Comparable(docValue, c) /\ Rank(docValue) =< Rank(c)
      [] operator = "$eq"  -> "val" \in DOMAIN compValue /\ docValue = c
      [] operator = "$ne"  -> ~("val" \in DOMAIN compValue /\ docValue = c)
      [] operator = "$in"  -> "list" \in DOMAIN compValue /\ docValue \in compValue.list
      [] operator = "$nin" -> "list" \in DOMAIN compValue /\ docValue \notin compValue.list
      [] OTHER -> TRUE

\* one case of the switch: TRUE when the document passes the operator.
\* compValue is [val |-> v] or, for an array, [list |-> set of values]
MatchOperator(docValue, operator, compValue) ==
    LET c == ArgValue(compValue) IN
    CASE operator = "$gt"  -> Comparable(docValue, c) /\ Rank(docValue) > Rank(c)
      [] operator = "$lt"  -> Comparable(docValue, c) /\ Rank(docValue) < Rank(c)
      [] operator = "$gte" -> Comparable(docValue, c) /\ Rank(docValue) >= Rank(c)
      [] operator = "$lte" -> Comparable(docValue, c) /\ Rank(docValue) =< Rank(c)
      [] operator = "$eq"  -> "val" \in DOMAIN compValue /\ docValue = c
      [] operator = "$ne"  -> ~("val" \in DOMAIN compValue /\ docValue = c)
      [] operator = "$in"  -> "list" \in DOMAIN compValue /\ docValue \in compValue.list
      [] operator = "$nin" -> "list" \in DOMAIN compValue /\ docValue \notin compValue.list
      [] OTHER -> FALSE

_matchQuery(doc, query) ==
    \A key \in DOMAIN query :
        IF IsLiteral(query[key])
        THEN Get(doc, key) = query[key].lit
        ELSE \A i \in DOMAIN query[key].ops :
                MatchOperator(Get(doc, key), query[key].ops[i].op, query[key].ops[i].arg)

----------------------------------------------------------------------------
(* Index Manager *)

\* the property key a value is coerced to: index[value]
ToKey(v) ==
    CASE v = Undefined -> "undefined"
      [] v = NaNValue  -> "NaN"
      [] v = NullValue -> "null"
      [] v = ObjectValue -> "[object Object]"
      [] OTHER         -> v

\* the positions (0-based, ascending) of the documents whose field has the key
RECURSIVE Positions(_, _, _, _)
Positions(docs, field, key, i) ==
    IF i > Len(docs) THEN <<>>
    ELSE IF ToKey(Get(docs[i], field)) = key
         THEN <<i - 1>> \o Positions(docs, field, key, i + 1)
         ELSE Positions(docs, field, key, i + 1)

\* the index object built by the loop of createIndex
BuildIndex(docs, field) ==
    [key \in {ToKey(Get(docs[i], field)) : i \in DOMAIN docs} |->
        Positions(docs, field, key, 1)]

\* this._indexes[full] && this._indexes[full][field]
HasIndex(full, field) ==
    /\ full \in DOMAIN _indexes
    /\ field \in DOMAIN _indexes[full]

----------------------------------------------------------------------------
(* Serialization: JSON.stringify / JSON.parse of a collection.  The file   *)
(* content is the list of documents as JSON text holds them: a property    *)
(* whose value is undefined is left out, NaN is written as null.           *)

ToJSON(doc) ==
    [f \in {g \in DOMAIN doc : doc[g] # Undefined} |->
        IF doc[f] = NaNValue THEN NullValue ELSE doc[f]]

JSONstringify(docs) == [i \in DOMAIN docs |-> ToJSON(docs[i])]

JSONparse(text) == text

\* fs.writeFile(path, content)
WriteFile(dsk, path, content) ==
    [x \in (DOMAIN dsk) \cup {path} |-> IF x = path THEN content ELSE dsk[x]]

----------------------------------------------------------------------------
(* The async invocations in flight.  A dump pass started by the timer has  *)
(* kind "timer"; a close() call, with its _dumpAllData, has kind "close".  *)
(* phase "changed" is the loop of _dumpChangedCollections, phase "all" the *)
(* loops of _dumpAllData.  pc is the await the invocation is suspended at: *)
(* "mkdir" (fs.mkdir) or "write" (fs.writeFile).                           *)

NoData == [ref |-> "none", name |-> <<>>, docs |-> <<>>]

Idle == [kind |-> "none", phase |-> "none", pc |-> "none", pos |-> 0,
         db |-> <<>>, dbs |-> <<>>, colls |-> <<>>, dir |-> <<>>, file |-> <<>>,
         data |-> NoData, buf |-> <<>>, snap |-> <<>>]

NoEvent == [type |-> "none"]

Procs == 1 .. MaxProcs

FreeProcs == {p \in Procs : procs[p].kind = "none"}

\* the slot a new invocation takes
NewProc == CHOOSE p \in FreeProcs : \A q \in FreeProcs : p =< q

\* const data = this._collections[full]: a reference to the array, or undefined
Ref(full) ==
    IF HasColl(full) THEN [ref |-> "live", name |-> full, docs |-> <<>>]
    ELSE [ref |-> "undef", name |-> full, docs |-> <<>>]

\* the array a reference holds
Deref(data) == IF data.ref = "live" THEN Docs(data.name) ELSE data.docs

\* this._collections is replaced: a reference keeps the array it was taken from
Freeze(pr) ==
    IF pr.data.ref = "live"
    THEN [pr EXCEPT !.data = [ref |-> "frozen", name |-> pr.data.name,
                              docs |-> Docs(pr.data.name)]]
    ELSE pr

\* key.startsWith(`${dbName}.`)
StartsWithDb(full, dbName) ==
    /\ Len(full) > Len(dbName)
    /\ SubSeq(full, 1, Len(dbName)) = dbName

\* Object.keys(this._collections).filter(key => key.startsWith(`${dbName}.`))
KeysOf(dbName) ==
    SelectSeq([i \in DOMAIN _collections |-> _collections[i].name],
              LAMBDA k : StartsWithDb(k, dbName))

\* the next collection of the nested loops of _dumpAllData, or done
RECURSIVE AllNext(_, _, _)
AllNext(db, dbs, colls) ==
    IF colls # <<>>
    THEN [done |-> FALSE, db |-> db, dbs |-> dbs, colls |-> Tail(colls), full |-> Head(colls)]
    ELSE IF dbs = <<>>
         THEN [done |-> TRUE, db |-> db, dbs |-> dbs, colls |-> colls, full |-> <<>>]
         ELSE AllNext(Head(dbs), Tail(dbs), KeysOf(Head(dbs)))

\* the three assignments that end close()
Release(p, snap) ==
    /\ _databases' = <<>>
    /\ _collections' = <<>>
    /\ _indexes' = <<>>
    /\ closed' = TRUE
    /\ event' = [type |-> "closeReturned", snap |-> snap]

\* _dumpChangedCollections / _dumpAllData from the head of their loop to the
\* next await, or to their end (for close(), to the end of close()).
\* pr is the invocation's record as it arrives at the loop head, dumping the
\* value of this._isDumping while the pass runs.
PassStep(p, pr, dumping) ==
    IF pr.phase = "changed" /\ pr.pos < Len(_changedCollections)
    THEN LET full == _changedCollections[pr.pos + 1] IN
         /\ procs' = [procs EXCEPT ![p] =
                        [pr EXCEPT !.pos = pr.pos + 1, !.pc = "mkdir",
                                   !.dir = <<full[1]>>, !.file = <<full[2]>>,
                                   !.data = Ref(full), !.buf = <<>>]]
         /\ event' = NoEvent
         /\ _isDumping' = dumping
         /\ UNCHANGED <<_changedCollections, _databases, _collections, _indexes, closed>>
    ELSE LET clears == pr.phase = "changed"
             reset(q) == IF clears THEN [q EXCEPT !.pos = 0] ELSE q
             nxt == IF clears THEN AllNext(<<>>, _databases, <<>>)
                    ELSE AllNext(pr.db, pr.dbs, pr.colls)
         IN
         /\ _changedCollections' = IF clears THEN <<>> ELSE _changedCollections
         /\ IF pr.kind = "timer"
            THEN /\ procs' = [q \in Procs |-> IF q = p THEN Idle ELSE reset(procs[q])]
                 /\ event' = NoEvent
                 /\ _isDumping' = dumping
                 /\ UNCHANGED <<_databases, _collections, _indexes, closed>>
            ELSE IF ~nxt.done
            THEN /\ procs' = [q \in Procs |->
                        IF q = p
                        THEN [pr EXCEPT !.phase = "all", !.pc = "mkdir", !.pos = 0,
                                        !.db = nxt.db, !.dbs = nxt.dbs, !.colls = nxt.colls,
                                        !.dir = nxt.db,
                                        !.file = <<nxt.full[Len(nxt.full)]>>,
                                        !.data = Ref(nxt.full), !.buf = <<>>]
                        ELSE reset(procs[q])]
                 /\ event' = NoEvent
                 /\ _isDumping' = dumping
                 /\ UNCHANGED <<_databases, _collections, _indexes, closed>>
            ELSE /\ procs' = [q \in Procs |->
                        IF q = p THEN Idle ELSE Freeze(reset(procs[q]))]
                 /\ _isDumping' = FALSE
                 /\ Release(p, pr.snap)

\* an await of the pass rejects: the timer callback logs it, close() rejects
PassFail(p) ==
    LET pr == procs[p] IN
    /\ procs' = [procs EXCEPT ![p] = Idle]
    /\ _isDumping' = IF pr.kind = "close" THEN FALSE ELSE _isDumping
    /\ event' = [type |-> "passFailed", kind |-> pr.kind, phase |-> pr.phase,
                 name |-> pr.data.name,
                 pending |-> IF pr.phase = "changed"
                             THEN SubSeq(_changedCollections, pr.pos + 1,
                                         Len(_changedCollections))
                             ELSE <<>>]
    /\ UNCHANGED <<_changedCollections, _databases, _collections, _indexes, closed>>

----------------------------------------------------------------------------
(* Store Facade *)

\* _generateUniqueId(): timestamp plus 12 random bytes, taken as never repeating
_generateUniqueId(n) == IdStr[n]

\* this._lastActivity left as it is
lastActivityKept == sinceActivity

\* self._lastActivity = Date.now(), in disk mode only
updateActivity == IF storageMode = "disk" THEN 0 ELSE sinceActivity

UndefinedDoc == [undefined |-> TRUE]     \* collection[i] past the end

\* collection[i], i 0-based
At(docs, i) == IF i + 1 \in DOMAIN docs THEN docs[i + 1] ELSE UndefinedDoc

\* the full scan of find
Scan(docs, query) == SelectSeq(docs, LAMBDA d : _matchQuery(d, query))

\* the value find looks up in the index: query[indexKeys[0]] as a property key
QueryKey(clause) == IF IsLiteral(clause) THEN ToKey(clause.lit) ELSE "[object Object]"

\* find(query, user)
find(full, query, user) ==
    IF IsAbsent(user) \/ checkPermission(user, full, "read")
    THEN IF ~HasColl(full) THEN <<>>
         ELSE IF /\ Cardinality(DOMAIN query) = 1
                 /\ \E f \in DOMAIN query : HasIndex(full, f)
              THEN LET f == CHOOSE g \in DOMAIN query : TRUE
                       index == _indexes[full][f]
                       value == QueryKey(query[f])
                   IN IF value \in DOMAIN index
                      THEN [i \in DOMAIN index[value] |-> At(Docs(full), index[value][i])]
                      ELSE <<>>
              ELSE Scan(Docs(full), query)
    ELSE <<>>

\* db(dbName).collection(collectionName)
Select(dbName, collectionName) ==
    LET full == Dot(dbName, collectionName) IN
    /\ _databases' = SetAdd(_databases, dbName)
    /\ _collections' = IF HasColl(full) THEN _collections
                       ELSE Append(_collections, [name |-> full, docs |-> <<>>])
    /\ event' = NoEvent
    /\ UNCHANGED <<storageMode, _indexes, _changedCollections, sinceActivity, _idleTimer,
                   _isDumping, _isInitialized, disk, procs, idCount, closed>>

\* newDocs put in front: collection.unshift(...newDocs)
Unshift(collection, newDocs) == newDocs \o collection

\* collection.push(...newDocs)
Push(collection, newDocs) == collection \o newDocs

\* the state change of a write that went through
Mutate(full, docs, ids) ==
    /\ _collections' = PutColl(_collections, full, docs)
    /\ _changedCollections' = SetAdd(_changedCollections, full)
    /\ sinceActivity' = updateActivity
    /\ idCount' = idCount + ids
    /\ event' = NoEvent
    /\ UNCHANGED <<storageMode, _databases, _indexes, _idleTimer, _isDumping,
                   _isInitialized, disk, procs, closed>>

\* a call that changes nothing: denied, or thrown on a missing collection
NoChange ==
    /\ event' = NoEvent
    /\ UNCHANGED <<storageMode, _databases, _collections, _indexes, _changedCollections,
                   sinceActivity, _idleTimer, _isDumping, _isInitialized, disk, procs,
                   idCount, closed>>

insertOne(dbName, collectionName, doc, user) ==
    LET full == Dot(dbName, collectionName) IN
    IF (IsAbsent(user) \/ checkPermission(user, full, "write")) /\ HasColl(full)
    THEN /\ idCount < MaxIds
         /\ Mutate(full, Push(Docs(full), <<WithId(doc, _generateUniqueId(idCount + 1))>>), 1)
    ELSE NoChange

insertMany(dbName, collectionName, docs, user) ==
    LET full == Dot(dbName, collectionName) IN
    IF (IsAbsent(user) \/ checkPermission(user, full, "write")) /\ HasColl(full)
    THEN /\ idCount + Len(docs) =< MaxIds
         /\ Mutate(full,
                   Push(Docs(full), [i \in DOMAIN docs |->
                                        WithId(docs[i], _generateUniqueId(idCount + i))]),
                   Len(docs))
    ELSE NoChange

\* the first document whatever the filter says (1-based), 0 when there is none
FirstIndex(docs, filter) == IF docs # <<>> THEN 1 ELSE 0

\* the index of the first document matching the filter (1-based), 0 for none
MatchedIndex(docs, filter) ==
    IF \E i \in DOMAIN docs : _matchQuery(docs[i], filter)
    THEN CHOOSE i \in DOMAIN docs :
            /\ _matchQuery(docs[i], filter)
            /\ \A j \in 1 .. (i - 1) : ~_matchQuery(docs[j], filter)
    ELSE 0

\* the update applied with Object.assign alone: no delete of _id, and
\* originalId is not put back
Overwritten(docToUpdate, update) ==
    IF "set" \in DOMAIN update
    THEN Assign(docToUpdate, update.set)
    ELSE update.doc

\* the matched document after the update; update is [set |-> fields] for
\* { $set: fields } and [doc |-> fields] for a replacement document
Updated(docToUpdate, update) ==
    LET originalId == Get(docToUpdate, "_id") IN
    IF "set" \in DOMAIN update
    THEN WithId(Assign(docToUpdate, Delete(update.set, "_id")), originalId)
    ELSE WithId(Delete(update.doc, "_id"), originalId)

\* the fields a filter is spread into: { ...filter }
FilterFields(filter) ==
    [f \in DOMAIN filter |->
        IF IsLiteral(filter[f]) THEN filter[f].lit ELSE ObjectValue]

\* the document an upsert inserts
Upserted(filter, update, id) ==
    WithId(Delete(Assign(FilterFields(filter),
                         IF "set" \in DOMAIN update THEN update.set ELSE update.doc),
                  "_id"),
           id)

updateOne(dbName, collectionName, filter, update, upsert, user) ==
    LET full == Dot(dbName, collectionName) IN
    IF IsAbsent(user) \/ ~checkPermission(user, full, "write") THEN NoChange
    ELSE IF ~HasColl(full) THEN NoChange
    ELSE LET collection == Docs(full)
             matchedIndex == MatchedIndex(collection, filter)
         IN IF matchedIndex # 0
            THEN Mutate(full,
                        [collection EXCEPT ![matchedIndex] = Updated(@, update)], 0)
            ELSE IF upsert
                 THEN /\ idCount < MaxIds
                      /\ Mutate(full,
                                Push(collection,
                                     <<Upserted(filter, update,
                                                _generateUniqueId(idCount + 1))>>),
                                1)
                 ELSE NoChange

\* collection.splice(i, 1), i 0-based
Splice(collection, i) ==
    SubSeq(collection, 1, i) \o SubSeq(collection, i + 2, Len(collection))

\* the loop of deleteOne with i++ after every removal and no i--
RECURSIVE DeleteLoopSkipping(_, _, _, _)
DeleteLoopSkipping(collection, filter, i, deletedCount) ==
    IF i >= Len(collection)
    THEN [collection |-> collection, deletedCount |-> deletedCount]
    ELSE IF _matchQuery(collection[i + 1], filter)
         THEN DeleteLoopSkipping(Splice(collection, i), filter, i + 1, deletedCount + 1)
         ELSE DeleteLoopSkipping(collection, filter, i + 1, deletedCount)

\* the loop of deleteOne from position i (0-based): splice, deletedCount++,
\* i-- on a match, then i++
RECURSIVE DeleteLoop(_, _, _, _)
DeleteLoop(collection, filter, i, deletedCount) ==
    IF i >= Len(collection)
    THEN [collection |-> collection, deletedCount |-> deletedCount]
    ELSE IF _matchQuery(collection[i + 1], filter)
         THEN DeleteLoop(Splice(collection, i), filter, (i - 1) + 1, deletedCount + 1)
         ELSE DeleteLoop(collection, filter, i + 1, deletedCount)

deleteOne(dbName, collectionName, filter, user) ==
    LET full == Dot(dbName, collectionName) IN
    IF (IsAbsent(user) \/ checkPermission(user, full, "write")) /\ HasColl(full)
    THEN LET collection == Docs(full)
             done == DeleteLoop(collection, filter, 0, 0)
         IN /\ _collections' = PutColl(_collections, full, done.collection)
            /\ _changedCollections' =
                    IF done.deletedCount > 0
                    THEN SetAdd(_changedCollections, full)
                    ELSE _changedCollections
            /\ sinceActivity' = updateActivity
            /\ event' = NoEvent
            /\ UNCHANGED <<storageMode, _databases, _indexes, _idleTimer, _isDumping,
                           _isInitialized, disk, procs, idCount, closed>>
    ELSE NoChange

\* createIndex(field, user) of a collection, with JSM.createIndex
createIndex(dbName, collectionName, field, user) ==
    LET full == Dot(dbName, collectionName)
        old == IF full \in DOMAIN _indexes THEN _indexes[full] ELSE <<>>
        new == IF HasColl(full)
               THEN [f \in (DOMAIN old) \cup {field} |->
                        IF f = field THEN BuildIndex(Docs(full), field) ELSE old[f]]
               ELSE old
    IN
    IF IsAbsent(user) \/ checkPermission(user, full, "write")
    THEN /\ _indexes' = [k \in (DOMAIN _indexes) \cup {full} |->
                            IF k = full THEN new ELSE _indexes[k]]
         /\ event' = NoEvent
         /\ UNCHANGED <<storageMode, _databases, _collections, _changedCollections,
                        sinceActivity, _idleTimer, _isDumping, _isInitialized, disk,
                        procs, idCount, closed>>
    ELSE NoChange

----------------------------------------------------------------------------
(* initialize() *)

AuthUsers == <<"auth", "users">>

\* the document _ensureAdminUser pushes; the roles value is kept as one token
AdminUserDoc(id) ==
    [_id |-> id, username |-> "admin", password |-> "hash(admin)",
     roles |-> "[*: read, write, admin]"]

\* the orders fs.readdir may list the files in, directory by directory
LoadOrders(dsk) ==
    {s \in [1 .. Cardinality(DOMAIN dsk) -> DOMAIN dsk] :
        /\ \A i, j \in DOMAIN s : i # j => s[i] # s[j]
        /\ \A i, j, k \in DOMAIN s : (i < j /\ j < k /\ s[i][1] = s[k][1]) => s[j][1] = s[i][1]}

\* this._collections after the loops of _loadPersistedData
RECURSIVE LoadCollections(_, _, _)
LoadCollections(colls, dsk, order) ==
    IF order = <<>> THEN colls
    ELSE LoadCollections(PutColl(colls, Dot(Head(order)[1], Head(order)[2]),
                                 JSONparse(dsk[Head(order)])),
                         dsk, Tail(order))

\* this._databases after the loops of _loadPersistedData
RECURSIVE LoadDatabases(_, _)
LoadDatabases(dbs, order) ==
    IF order = <<>> THEN dbs
    ELSE LoadDatabases(SetAdd(dbs, Head(order)[1]), Tail(order))

DocsIn(colls, full) ==
    IF \E i \in DOMAIN colls : colls[i].name = full
    THEN colls[CHOOSE i \in DOMAIN colls : colls[i].name = full].docs
    ELSE <<>>

\* initialize(): _ensureStorageDirectory, _loadPersistedData, _startIdleDump,
\* _ensureAdminUser, taken as one step (its caller awaits it)
initialize ==
    /\ ~_isInitialized
    /\ \E order \in LoadOrders(disk) :
        LET loaded == LoadCollections(_collections, disk, order)
            needAdmin == DocsIn(loaded, AuthUsers) = <<>>
            replaced == {Dot(path[1], path[2]) : path \in DOMAIN disk}
        IN
        /\ needAdmin => idCount < MaxIds
        /\ _databases' = LoadDatabases(_databases, order)
        /\ _collections' =
                IF needAdmin
                THEN PutColl(loaded, AuthUsers,
                             <<AdminUserDoc(_generateUniqueId(idCount + 1))>>)
                ELSE loaded
        /\ _changedCollections' =
                IF needAdmin THEN SetAdd(_changedCollections, AuthUsers)
                ELSE _changedCollections
        /\ idCount' = IF needAdmin THEN idCount + 1 ELSE idCount
        /\ procs' = [q \in Procs |->
                        IF procs[q].data.name \in replaced THEN Freeze(procs[q])
                        ELSE procs[q]]
    /\ _idleTimer' = IF storageMode = "disk" THEN TRUE ELSE _idleTimer
    /\ _isInitialized' = TRUE
    /\ event' = NoEvent
    /\ UNCHANGED <<storageMode, _indexes, sinceActivity, _isDumping, disk, closed>>

----------------------------------------------------------------------------
(* Persistence Scheduler *)

\* wall-clock time passes
Tick ==
    /\ sinceActivity =< IdleTimeout
    /\ sinceActivity' = sinceActivity + 1
    /\ event' = NoEvent
    /\ UNCHANGED <<storageMode, _databases, _collections, _indexes, _changedCollections,
                   _idleTimer, _isDumping, _isInitialized, disk, procs, idCount, closed>>

\* the setInterval callback of _startIdleDump
TimerFire ==
    /\ _idleTimer
    /\ sinceActivity > IdleTimeout
    /\ Len(_changedCollections) > 0
    /\ FreeProcs # {}
    /\ PassStep(NewProc, [Idle EXCEPT !.kind = "timer", !.phase = "changed"], _isDumping)
    /\ UNCHANGED <<storageMode, sinceActivity, _idleTimer, _isInitialized, disk, idCount>>

\* _persistCollection after fs.mkdir: JSON.stringify(data), fs.writeFile is called
MkdirDone(p) ==
    /\ procs[p].pc = "mkdir"
    /\ IF procs[p].data.ref = "undef"
       THEN PassFail(p)
       ELSE /\ procs' = [procs EXCEPT ![p].pc = "write",
                                      ![p].buf = JSONstringify(Deref(procs[p].data))]
            /\ event' = NoEvent
            /\ UNCHANGED <<_changedCollections, _isDumping, _databases, _collections,
                           _indexes, closed>>
    /\ UNCHANGED <<storageMode, sinceActivity, _idleTimer, _isInitialized, disk, idCount>>

\* fs.writeFile resolves and the pass goes on
WriteDone(p) ==
    /\ procs[p].pc = "write"
    /\ disk' = WriteFile(disk, <<procs[p].dir, procs[p].file>>, procs[p].buf)
    /\ PassStep(p, procs[p], _isDumping)
    /\ UNCHANGED <<storageMode, sinceActivity, _idleTimer, _isInitialized, idCount>>

\* fs.writeFile rejects
WriteFail(p) ==
    /\ procs[p].pc = "write"
    /\ PassFail(p)
    /\ UNCHANGED <<storageMode, sinceActivity, _idleTimer, _isInitialized, disk, idCount>>

\* close(): clearInterval, _dumpAllData up to its first await (or, when it has
\* none, to the end of close())
close ==
    /\ FreeProcs # {}
    /\ _idleTimer' = FALSE
    /\ IF _isDumping
       THEN /\ procs' = [q \in Procs |-> Freeze(procs[q])]
            /\ Release(NewProc, _collections)
            /\ UNCHANGED <<_changedCollections, _isDumping>>
       ELSE IF storageMode = "memory"
       THEN /\ procs' = [q \in Procs |-> Freeze([procs[q] EXCEPT !.pos = 0])]
            /\ _changedCollections' = <<>>
            /\ Release(NewProc, _collections)
            /\ UNCHANGED _isDumping
       ELSE PassStep(NewProc,
                     [Idle EXCEPT !.kind = "close", !.phase = "changed",
                                  !.snap = _collections],
                     TRUE)
    /\ UNCHANGED <<storageMode, sinceActivity, _isInitialized, disk, idCount>>

----------------------------------------------------------------------------
(* The store with its persistence: the callers' inputs and the behaviours  *)

Admin == [username |-> "admin",
          roles |-> <<[resource |-> <<"*">>, permissions |-> {"read", "write", "admin"}]>>]

Reader == [username |-> "reader",
           roles |-> <<[resource |-> <<"test", "one">>, permissions |-> {"read"}]>>]

Users == {NoUser, Admin, Reader}

TestOne == <<"test", "one">>

\* the (database name, collection name) pairs the callers use
Pairs == {<<<<"auth">>, <<"users">>>>, <<<<"test">>, <<"one">>>>}

InputDocs == {[name |-> "Alpha"]}

Filters == {[name |-> [lit |-> "Alpha"]]}

Updates == {[set |-> [name |-> "Beta"]]}

\* what an earlier run may have left under storagePath
PersistedDoc == [_id |-> PersistedId, name |-> "Alpha"]

InitialDisks ==
    {<<>>,
     [path \in {<<<<"test">>, <<"one">>>>} |-> <<PersistedDoc>>]}

\* new JSM(options)
Init ==
    /\ storageMode \in {"memory", "disk"}
    /\ _databases = <<>>
    /\ _collections = <<>>
    /\ _indexes = <<>>
    /\ _changedCollections = <<>>
    /\ sinceActivity = 0
    /\ _idleTimer = FALSE
    /\ _isDumping = FALSE
    /\ _isInitialized = FALSE
    /\ disk \in InitialDisks
    /\ procs = [p \in Procs |-> Idle]
    /\ idCount = 0
    /\ closed = FALSE
    /\ event = NoEvent

\* the calls of a caller that awaited initialize(); close() is called until
\* one call has returned
Next ==
    \/ initialize
    \/ _isInitialized /\ \E pair \in Pairs : Select(pair[1], pair[2])
    \/ _isInitialized /\ \E doc \in InputDocs, user \in Users :
            insertOne(<<"test">>, <<"one">>, doc, user)
    \/ _isInitialized /\ \E doc \in InputDocs, user \in Users :
            insertMany(<<"test">>, <<"one">>, <<doc>>, user)
    \/ _isInitialized /\ \E filter \in Filters, update \in Updates,
                            upsert \in BOOLEAN, user \in Users :
            updateOne(<<"test">>, <<"one">>, filter, update, upsert, user)
    \/ _isInitialized /\ \E filter \in Filters, user \in Users :
            deleteOne(<<"test">>, <<"one">>, filter, user)
    \/ Tick
    \/ TimerFire
    \/ \E p \in Procs : MkdirDone(p)
    \/ \E p \in Procs : WriteDone(p)
    \/ \E p \in Procs : WriteFail(p)
    \/ _isInitialized /\ ~closed /\ close

Spec == Init /\ [][Next]_vars

----------------------------------------------------------------------------
(* The idle dump left to itself: writes succeed, close() is not called,    *)
(* the timer keeps firing and every started write completes.  deleteOne    *)
(* is called only where it deletes, so that the callers' writes end.       *)

NextLive ==
    \/ initialize
    \/ _isInitialized /\ \E pair \in Pairs : Select(pair[1], pair[2])
    \/ _isInitialized /\ \E doc \in InputDocs, user \in Users :
            insertOne(<<"test">>, <<"one">>, doc, user)
    \/ _isInitialized /\ \E filter \in Filters, update \in Updates, user \in Users :
            updateOne(<<"test">>, <<"one">>, filter, update, FALSE, user)
    \/ /\ _isInitialized
       /\ \E filter \in Filters :
            /\ HasColl(TestOne)
            /\ \E i \in DOMAIN Docs(TestOne) : _matchQuery(Docs(TestOne)[i], filter)
            /\ deleteOne(<<"test">>, <<"one">>, filter, NoUser)
    \/ Tick
    \/ TimerFire
    \/ \E p \in Procs : MkdirDone(p)
    \/ \E p \in Procs : WriteDone(p)

SpecLive ==
    /\ Init
    /\ [][NextLive]_vars
    /\ WF_vars(Tick)
    /\ WF_vars(TimerFire)
    /\ WF_vars(\E p \in Procs : MkdirDone(p))
    /\ WF_vars(\E p \in Procs : WriteDone(p))

----------------------------------------------------------------------------
(* Dump and reload: a disk-mode store whose callers wait for a running     *)
(* pass before they write or close, with a collection name that holds a    *)
(* '.' ("one.v2") beside one that does not.                                *)

PairsRT == {<<<<"test">>, <<"one">>>>, <<<<"test">>, <<"one", "v2">>>>}

InitRT ==
    /\ Init
    /\ storageMode = "disk"
    /\ disk = <<>>

NextRT ==
    \/ initialize
    \/ _isInitialized /\ \E pair \in PairsRT : Select(pair[1], pair[2])
    \/ /\ _isInitialized
       /\ \A p \in Procs : procs[p].kind = "none"
       /\ \E pair \in PairsRT, doc \in InputDocs :
            insertOne(pair[1], pair[2], doc, NoUser)
    \/ Tick
    \/ TimerFire
    \/ \E p \in Procs : MkdirDone(p)
    \/ \E p \in Procs : WriteDone(p)
    \/ /\ _isInitialized
       /\ ~closed
       /\ \A p \in Procs : procs[p].kind = "none"
       /\ close

SpecRT == InitRT /\ [][NextRT]_vars

----------------------------------------------------------------------------
(* One collection with its indexes, in memory mode                         *)

DocsIdx == {[name |-> "Alpha"], [name |-> "Beta"], [city |-> "Gamma"]}

FiltersIdx == {[name |-> [lit |-> "Alpha"]], [name |-> [lit |-> "Beta"]]}

UpdatesIdx == {[set |-> [name |-> "Beta"]], [doc |-> [name |-> "Alpha"]]}

InitIdx ==
    /\ Init
    /\ storageMode = "memory"
    /\ disk = <<>>

NextIdx ==
    \/ Select(<<"test">>, <<"one">>)
    \/ \E doc \in DocsIdx, user \in Users :
            insertOne(<<"test">>, <<"one">>, doc, user)
    \/ \E d1 \in DocsIdx, d2 \in DocsIdx, user \in Users :
            insertMany(<<"test">>, <<"one">>, <<d1, d2>>, user)
    \/ \E filter \in FiltersIdx, update \in UpdatesIdx, upsert \in BOOLEAN, user \in Users :
            updateOne(<<"test">>, <<"one">>, filter, update, upsert, user)
    \/ \E filter \in FiltersIdx, user \in Users :
            deleteOne(<<"test">>, <<"one">>, filter, user)
    \/ \E user \in Users : createIndex(<<"test">>, <<"one">>, "name", user)

SpecIdx == InitIdx /\ [][NextIdx]_vars

----------------------------------------------------------------------------
(* Properties *)

InFlight == {p \in Procs : procs[p].kind # "none"}

\* the snapshot file of a collection: <storagePath>/<database>/<collection>.json
SnapshotPath(full) == <<<<full[1]>>, SubSeq(full, 2, Len(full))>>

\* what the snapshot file of a collection holds; a missing file holds no documents
Snapshot(full) ==
    IF SnapshotPath(full) \in DOMAIN disk THEN disk[SnapshotPath(full)] ELSE <<>>

\* the collections in memory whose documents are not what their snapshot file holds
Unsaved ==
    {_collections[i].name : i \in
        {j \in DOMAIN _collections :
            Snapshot(_collections[j].name) # JSONstringify(_collections[j].docs)}}

\* C1: in disk mode, whenever no dump pass is in progress (and the store has
\* not been closed), every collection whose documents differ from its
\* snapshot file is in the dirty set.
C1_UnsavedIsDirty ==
    (storageMode = "disk" /\ InFlight = {} /\ ~closed) =>
        Unsaved \subseteq SeqToSet(_changedCollections)


\* C2: at most one dump pass (timer-triggered or flush-all) is in progress.
C2_OnePassAtATime == Cardinality(InFlight) =< 1

\* C3: a pass of _dumpChangedCollections that a failed write ends has left no
\* dirty collection of its dirty set unvisited: the other collections were
\* written in the same pass.
C3_FailureSkipsNoCollection ==
    (event.type = "passFailed" /\ event.phase = "changed") => event.pending = <<>>

\* C4: when a write of a timer-triggered pass fails, the failure stays in the
\* timer callback and the collection is in the dirty set when the pass ends.
C4_FailedCollectionStaysDirty ==
    (event.type = "passFailed" /\ event.kind = "timer") =>
        event.name \in SeqToSet(_changedCollections)


\* C6: in disk mode, when close() returns, every collection that was in
\* memory when it was called has a snapshot file holding the documents it had
\* at that moment.
C6_CloseWritesBeforeRelease ==
    (storageMode = "disk" /\ event.type = "closeReturned") =>
        \A i \in DOMAIN event.snap :
            Snapshot(event.snap[i].name) = JSONstringify(event.snap[i].docs)

\* C7: once close() has completed the store holds no collection: no later
\* operation creates one or adds a document.
C7_ClosedIsTerminal == closed => (_collections = <<>> /\ _databases = <<>>)

\* the documents the files under storagePath hold
StoredDocs == UNION {SeqToSet(disk[path]) : path \in DOMAIN disk}

\* C8: in memory mode no collection in memory holds a document of a file under
\* storagePath, and the files are the ones the store found.
C8_MemoryModeLeavesStorageAlone ==
    storageMode = "memory" =>
        /\ \A i \in DOMAIN _collections :
                SeqToSet(_collections[i].docs) \cap StoredDocs = {}
        /\ disk \in InitialDisks


\* every collection in memory is in its snapshot file and none is dirty
Saved == _changedCollections = <<>> /\ Unsaved = {}

\* C5: in disk mode after initialize, once the callers' writes have ended the
\* idle dump brings the store to a state where nothing is dirty and every
\* snapshot file holds its collection's documents, and it stays there.
C5_IdleDumpSavesEverything ==
    [](((storageMode = "disk") /\ _isInitialized) => <>[]Saved)

\* the store a restart builds from the files: _loadPersistedData on a new JSM
Reloaded(order) == LoadCollections(<<>>, disk, order)

\* C9: after a dump, with no write since, a load into a fresh store gives
\* every collection in memory the same documents under the same key.
C9_DumpThenLoadRoundTrip ==
    (storageMode = "disk" /\ _isInitialized /\ ~closed /\ InFlight = {}
        /\ _changedCollections = <<>>) =>
        \A order \in LoadOrders(disk) : \A i \in DOMAIN _collections :
            DocsIn(Reloaded(order), _collections[i].name) = _collections[i].docs

\* C10: find on a single-field literal filter over an indexed field returns
\* what the full scan returns: the documents now in the collection that match.
C10_IndexedFindIsScan ==
    \A query \in FiltersIdx :
        (HasColl(TestOne) /\ HasIndex(TestOne, "name")) =>
            find(TestOne, query, NoUser) = Scan(Docs(TestOne), query)

----------------------------------------------------------------------------
(* Index lookups right after the index was built *)

\* find({name: v}) for the literal values v, the string "undefined" among them
LiteralQueries ==
    {[name |-> [lit |-> v]] : v \in {"Alpha", "Beta", "Gamma", "undefined"}}

\* the index on a field is as createIndex built it from the present documents
FreshIndex(full, field) ==
    /\ HasColl(full)
    /\ HasIndex(full, field)
    /\ _indexes[full][field] = BuildIndex(Docs(full), field)

\* C11: with the index on name as createIndex just built it (no mutation
\* since), find({name: v}) returns, for every literal v, exactly the documents
\* whose name strictly equals v, in collection order: the full-scan result.
C11_FreshIndexFindIsScan ==
    \A query \in LiteralQueries :
        FreshIndex(TestOne, "name") =>
            find(TestOne, query, NoUser) = Scan(Docs(TestOne), query)

----------------------------------------------------------------------------
(* The collection operations with their return values, on a store that was *)
(* constructed in either mode and whose timer is not armed                 *)

Guest == [username |-> "guest", roles |-> <<>>]

UsersFacade == {NoUser, Admin, Reader, Guest}

\* the second document brings an _id of the caller's
DocsFacade == {[name |-> "Alpha"], [name |-> "Beta", _id |-> "client"]}

\* a literal match, a literal that matches nothing and carries an _id, an operator
FiltersFacade ==
    {[name |-> [lit |-> "Alpha"]],
     [name |-> [lit |-> "Gamma"], _id |-> [lit |-> "client"]],
     [name |-> [ops |-> <<[op |-> "$gt", arg |-> [val |-> "Beta"]]>>]]}

UpdatesFacade ==
    {[set |-> [name |-> "Beta"]],
     [set |-> [city |-> "Gamma", _id |-> "client"]],
     [doc |-> [name |-> "Alpha", _id |-> "client"]]}

Thrown == "<TypeError>"       \* the call rejects: collection is undefined

\* !user || self.checkPermission(user, fullCollectionName, 'write')
MayWrite(user, full) == IsAbsent(user) \/ checkPermission(user, full, "write")

\* what insertOne returns: newDoc, or null
insertOneReturn(full, doc, user) ==
    IF ~MayWrite(user, full) THEN NullValue
    ELSE IF ~HasColl(full) THEN Thrown
    ELSE WithId(doc, _generateUniqueId(idCount + 1))

\* what insertMany returns: newDocs, or null
insertManyReturn(full, docs, user) ==
    IF ~MayWrite(user, full) THEN NullValue
    ELSE IF ~HasColl(full) THEN Thrown
    ELSE [i \in DOMAIN docs |-> WithId(docs[i], _generateUniqueId(idCount + i))]

\* what updateOne returns
updateOneReturn(full, filter, update, upsert, user) ==
    IF IsAbsent(user) \/ ~checkPermission(user, full, "write")
    THEN [matchedCount |-> 0, modifiedCount |-> 0, acknowledged |-> FALSE,
          error |-> "Permission denied"]
    ELSE IF ~HasColl(full)
    THEN [matchedCount |-> 0, modifiedCount |-> 0, acknowledged |-> TRUE]
    ELSE IF MatchedIndex(Docs(full), filter) # 0
    THEN [matchedCount |-> 1, modifiedCount |-> 1, acknowledged |-> TRUE]
    ELSE IF upsert
    THEN [matchedCount |-> 0, modifiedCount |-> 1,
          upsertedId |-> _generateUniqueId(idCount + 1),
          acknowledged |-> TRUE, upserted |-> TRUE]
    ELSE [matchedCount |-> 0, modifiedCount |-> 0, acknowledged |-> TRUE]

\* what deleteOne returns: deletedCount
deleteOneReturn(full, filter, user) ==
    IF ~MayWrite(user, full) THEN 0
    ELSE IF ~HasColl(full) THEN -1
    ELSE DeleteLoop(Docs(full), filter, 0, 0).deletedCount

\* what the collection's createIndex returns
createIndexReturn(full, user) == MayWrite(user, full)

InitFacade ==
    /\ Init
    /\ disk = <<>>

NextFacade ==
    \/ Select(<<"test">>, <<"one">>)
    \/ \E doc \in DocsFacade, user \in UsersFacade :
            insertOne(<<"test">>, <<"one">>, doc, user)
    \/ \E d1 \in DocsFacade, d2 \in DocsFacade, user \in UsersFacade :
            insertMany(<<"test">>, <<"one">>, <<d1, d2>>, user)
    \/ \E filter \in FiltersFacade, update \in UpdatesFacade, upsert \in BOOLEAN,
          user \in UsersFacade :
            updateOne(<<"test">>, <<"one">>, filter, update, upsert, user)
    \/ \E filter \in FiltersFacade, user \in UsersFacade :
            deleteOne(<<"test">>, <<"one">>, filter, user)
    \/ \E user \in UsersFacade : createIndex(<<"test">>, <<"one">>, "name", user)
    \/ Tick

SpecFacade == InitFacade /\ [][NextFacade]_vars

----------------------------------------------------------------------------
(* Permissions at the facade *)

PresentUsers == UsersFacade \ {NoUser}

\* find({}) and the filters
QueriesFacade == FiltersFacade \cup {EmptyObject}

\* a step of one of the five writing operations, called by this user
WriteCall(user) ==
    \/ \E doc \in DocsFacade : insertOne(<<"test">>, <<"one">>, doc, user)
    \/ \E d1 \in DocsFacade, d2 \in DocsFacade :
            insertMany(<<"test">>, <<"one">>, <<d1, d2>>, user)
    \/ \E filter \in FiltersFacade, update \in UpdatesFacade, upsert \in BOOLEAN :
            updateOne(<<"test">>, <<"one">>, filter, update, upsert, user)
    \/ \E filter \in FiltersFacade : deleteOne(<<"test">>, <<"one">>, filter, user)
    \/ createIndex(<<"test">>, <<"one">>, "name", user)

\* the denial sentinels of the five writing operations
DenialSentinels(user) ==
    /\ \A doc \in DocsFacade : insertOneReturn(TestOne, doc, user) = NullValue
    /\ \A doc \in DocsFacade : insertManyReturn(TestOne, <<doc, doc>>, user) = NullValue
    /\ \A filter \in FiltersFacade, update \in UpdatesFacade, upsert \in BOOLEAN :
            LET r == updateOneReturn(TestOne, filter, update, upsert, user) IN
            r.matchedCount = 0 /\ r.modifiedCount = 0 /\ ~r.acknowledged
    /\ \A filter \in FiltersFacade : deleteOneReturn(TestOne, filter, user) = 0
    /\ ~createIndexReturn(TestOne, user)

C12_DeniedWriteChangesNothing ==
    \A user \in PresentUsers :
        (~hasPermission(user, TestOne, "write") /\ WriteCall(user)) =>
            UNCHANGED <<_collections, _indexes, _changedCollections, sinceActivity>>

C12_DeniedReturnsSentinel ==
    \A user \in PresentUsers :
        ~hasPermission(user, TestOne, "write") => DenialSentinels(user)

C12_DeniedFindIsEmpty ==
    \A user \in PresentUsers, query \in QueriesFacade :
        ~hasPermission(user, TestOne, "read") => find(TestOne, query, user) = <<>>

C12_ReaderFindsMatching ==
    \A query \in QueriesFacade :
        HasColl(TestOne) => find(TestOne, query, Reader) = Scan(Docs(TestOne), query)

\* C12: a present user without 'write' on test.one gets the denial sentinel
\* from insertOne, insertMany, updateOne, deleteOne and createIndex, and the
\* call leaves the documents, the indexes, the dirty set and the last-activity
\* time as they were; a present user without 'read' gets [] from find; the
\* user whose only grant is read on test.one gets the matching documents.
C12_DenialIsSentinelAndNoChange ==
    /\ [][C12_DeniedWriteChangesNothing]_vars
    /\ [](C12_DeniedReturnsSentinel /\ C12_DeniedFindIsEmpty /\ C12_ReaderFindsMatching)

\* a step is a call by the absent user exactly when it is that call by the admin
SameEffect ==
    /\ \A doc \in DocsFacade :
            insertOne(<<"test">>, <<"one">>, doc, NoUser)
                <=> insertOne(<<"test">>, <<"one">>, doc, Admin)
    /\ \A d1 \in DocsFacade, d2 \in DocsFacade :
            insertMany(<<"test">>, <<"one">>, <<d1, d2>>, NoUser)
                <=> insertMany(<<"test">>, <<"one">>, <<d1, d2>>, Admin)
    /\ \A filter \in FiltersFacade, update \in UpdatesFacade, upsert \in BOOLEAN :
            updateOne(<<"test">>, <<"one">>, filter, update, upsert, NoUser)
                <=> updateOne(<<"test">>, <<"one">>, filter, update, upsert, Admin)
    /\ \A filter \in FiltersFacade :
            deleteOne(<<"test">>, <<"one">>, filter, NoUser)
                <=> deleteOne(<<"test">>, <<"one">>, filter, Admin)
    /\ createIndex(<<"test">>, <<"one">>, "name", NoUser)
            <=> createIndex(<<"test">>, <<"one">>, "name", Admin)

\* a call without a user returns what the admin's call returns
SameReturn ==
    /\ \A doc \in DocsFacade :
            /\ insertOneReturn(TestOne, doc, NoUser) = insertOneReturn(TestOne, doc, Admin)
            /\ insertManyReturn(TestOne, <<doc, doc>>, NoUser)
                    = insertManyReturn(TestOne, <<doc, doc>>, Admin)
    /\ \A filter \in FiltersFacade, update \in UpdatesFacade, upsert \in BOOLEAN :
            updateOneReturn(TestOne, filter, update, upsert, NoUser)
                = updateOneReturn(TestOne, filter, update, upsert, Admin)
    /\ \A filter \in FiltersFacade :
            deleteOneReturn(TestOne, filter, NoUser) = deleteOneReturn(TestOne, filter, Admin)
    /\ createIndexReturn(TestOne, NoUser) = createIndexReturn(TestOne, Admin)
    /\ \A query \in QueriesFacade :
            find(TestOne, query, NoUser) = find(TestOne, query, Admin)

\* C13: called without a user, insertOne, insertMany, updateOne, deleteOne,
\* createIndex and find do and return exactly what they do and return for a
\* user who holds the permission (here the admin).
C13_AbsentUserIsUnchecked == [][SameEffect]_vars /\ []SameReturn

----------------------------------------------------------------------------
(* hasPermission called on its own *)

MaxGrants == 2       \* grants of one user

GrantResources == {<<"*">>, <<"test">>, <<"test", "one">>, <<"prod">>}

GrantPermissions == {{"read"}, {"write"}, {"admin"}, {"read", "write"}}

Grants == [resource : GrantResources, permissions : GrantPermissions]

\* the users: absent, without a roles property, with 0 .. MaxGrants grants
UsersPerm ==
    {NoUser, [username |-> "bare"]}
        \cup {[username |-> "user", roles |-> roles] :
                roles \in UNION {[1 .. n -> Grants] : n \in 0 .. MaxGrants}}

ResourcesPerm == {<<"test", "one">>, <<"prod", "one">>, <<"test", "one", "v2">>}

PermissionsPerm == {"read", "write", "admin"}

\* db.hasPermission(user, resource, permission)
hasPermissionCall(user, resource, permission) ==
    /\ event' = [type |-> "hasPermission", user |-> user, resource |-> resource,
                 permission |-> permission,
                 result |-> hasPermission(user, resource, permission)]
    /\ UNCHANGED <<storageMode, _databases, _collections, _indexes, _changedCollections,
                   sinceActivity, _idleTimer, _isDumping, _isInitialized, disk, procs,
                   idCount, closed>>

InitPerm ==
    /\ Init
    /\ storageMode = "memory"
    /\ disk = <<>>

NextPerm ==
    \E user \in UsersPerm, resource \in ResourcesPerm, permission \in PermissionsPerm :
        hasPermissionCall(user, resource, permission)

SpecPerm == InitPerm /\ [][NextPerm]_vars

\* the grants a user holds
GrantsOf(user) ==
    IF IsAbsent(user) \/ "roles" \notin DOMAIN user THEN <<>> ELSE user.roles

\* the text before the first '.' of a resource
DatabasePrefix(resource) == <<resource[1]>>

\* the rule: the admin wildcard, or a grant on the resource, on its database
\* or on '*' that lists the permission
RuleAllows(user, resource, permission) ==
    LET grants == GrantsOf(user) IN
    /\ Len(grants) >= 1
    /\ \/ \E i \in DOMAIN grants :
            grants[i].resource = <<"*">> /\ "admin" \in grants[i].permissions
       \/ \E i \in DOMAIN grants :
            /\ grants[i].resource \in {resource, DatabasePrefix(resource), <<"*">>}
            /\ permission \in grants[i].permissions

\* C14: hasPermission(user, resource, p) is true exactly when the user has a
\* grant and either some grant on '*' lists 'admin', or some grant on the
\* resource, on the text before its first '.', or on '*' lists p.
C14_HasPermissionIsTheRule ==
    event.type = "hasPermission" =>
        (event.result <=> RuleAllows(event.user, event.resource, event.permission))

\* the admin wildcard decides: allowed although no grant lists the permission
C14_Witness ==
    /\ event.type = "hasPermission"
    /\ event.result
    /\ \A i \in DOMAIN GrantsOf(event.user) :
            event.permission \notin GrantsOf(event.user)[i].permissions

----------------------------------------------------------------------------
(* Identifiers *)

\* the identifiers _generateUniqueId has returned so far
Generated == {_generateUniqueId(n) : n \in 1 .. idCount}

\* C15: every document of the collection has a non-empty identifier, one that
\* the store generated (never one the caller supplied in a document, a filter
\* or an update), and no two documents have the same identifier.
C15_IdentifiersUnique ==
    HasColl(TestOne) =>
        LET docs == Docs(TestOne) IN
        /\ \A i \in DOMAIN docs :
                /\ "_id" \in DOMAIN docs[i]
                /\ docs[i]["_id"] \notin {"", Undefined, NullValue}
                /\ docs[i]["_id"] \in Generated
        /\ \A i, j \in DOMAIN docs : i # j => docs[i]["_id"] # docs[j]["_id"]

\* two documents are stored, one of them upserted from a filter and an update
\* that both carried an _id of the caller's
C15_Witness ==
    /\ HasColl(TestOne)
    /\ Len(Docs(TestOne)) = 2
    /\ \E i \in DOMAIN Docs(TestOne) :
            /\ Get(Docs(TestOne)[i], "city") = "Gamma"
            /\ Get(Docs(TestOne)[i], "name") = "Gamma"

----------------------------------------------------------------------------
(* updateOne *)

\* the updates of the form { $set: fields }
SetUpdates == {update \in UpdatesFacade : "set" \in DOMAIN update}

\* the filter's literal fields overlaid by the $set fields, without _id
LiteralFieldsOverlaid(filter, update) ==
    LET literal == {f \in DOMAIN filter : IsLiteral(filter[f])}
        fields == (literal \cup DOMAIN update.set) \ {"_id"}
    IN [f \in fields |-> IF f \in DOMAIN update.set THEN update.set[f] ELSE filter[f].lit]

\* the identifiers a filter and an update carry
GivenIds(filter, update) ==
    (IF "_id" \in DOMAIN filter /\ IsLiteral(filter["_id"]) THEN {filter["_id"].lit} ELSE {})
        \cup (IF "_id" \in DOMAIN update.set THEN {update.set["_id"]} ELSE {})

UpsertAppendsOne ==
    \A filter \in FiltersFacade, update \in SetUpdates :
        (/\ HasColl(TestOne)
         /\ MatchedIndex(Docs(TestOne), filter) = 0
         /\ updateOne(<<"test">>, <<"one">>, filter, update, TRUE, Admin))
        => LET old == Docs(TestOne)
               new == Docs(TestOne)'
           IN /\ Len(new) = Len(old) + 1
              /\ SubSeq(new, 1, Len(old)) = old
              /\ Delete(new[Len(new)], "_id") = LiteralFieldsOverlaid(filter, update)
              /\ Get(new[Len(new)], "_id") \notin
                    GivenIds(filter, update) \cup {Get(old[i], "_id") : i \in DOMAIN old}
                        \cup {Undefined}

\* C16: updateOne with upsert true and a filter that matches nothing appends
\* exactly one document: its fields other than _id are the filter's literal
\* fields overlaid by the $set fields (an operator clause gives no field),
\* and its _id is new, not one given in the filter or the update.
C16_UpsertIsFilterOverlaidBySet == [][UpsertAppendsOne]_vars

\* no document of the collection matches the filter
MatchesNothing(filter) ==
    HasColl(TestOne) =>
        \A i \in DOMAIN Docs(TestOne) : ~_matchQuery(Docs(TestOne)[i], filter)

NoMatchNoUpsertStep ==
    \A filter \in FiltersFacade, update \in UpdatesFacade, user \in UsersFacade :
        (MatchesNothing(filter)
            /\ updateOne(<<"test">>, <<"one">>, filter, update, FALSE, user))
        => UNCHANGED <<_databases, _collections, _indexes, _changedCollections,
                       sinceActivity, idCount>>

NoMatchNoUpsertReturn ==
    \A filter \in FiltersFacade, update \in UpdatesFacade, user \in UsersFacade :
        MatchesNothing(filter) =>
            LET r == updateOneReturn(TestOne, filter, update, FALSE, user) IN
            r.matchedCount = 0 /\ r.modifiedCount = 0

\* C17: updateOne with a filter that matches no document and without upsert
\* leaves the collection (length, identifiers, field values), the dirty set
\* and the rest of the store as they were, and reports 0 matched, 0 modified.
C17_NoMatchNoUpsertChangesNothing ==
    [][NoMatchNoUpsertStep]_vars /\ []NoMatchNoUpsertReturn

\* a disk-mode store that has been idle, with documents none of which matches
\* one of the filters
C17_Witness ==
    /\ HasColl(TestOne)
    /\ Len(Docs(TestOne)) >= 1
    /\ storageMode = "disk"
    /\ sinceActivity > 0
    /\ \E filter \in FiltersFacade : MatchesNothing(filter)

----------------------------------------------------------------------------
(* deleteOne *)

\* the users whose writes go through: absent, or holding 'write'
Writers == {user \in UsersFacade : MayWrite(user, TestOne)}

\* the documents of a list that match the filter, as a set
Matching(docs, filter) == {docs[i] : i \in {j \in DOMAIN docs : _matchQuery(docs[j], filter)}}

DeleteRemovesAllMatches ==
    \A filter \in FiltersFacade, user \in Writers :
        (HasColl(TestOne) /\ deleteOne(<<"test">>, <<"one">>, filter, user))
        => LET old == Docs(TestOne)
               new == Docs(TestOne)'
           IN /\ Matching(new, filter) = {}
              /\ SeqToSet(old) \ Matching(old, filter) \subseteq SeqToSet(new)
              /\ SeqToSet(new) \subseteq SeqToSet(old)
              /\ deleteOneReturn(TestOne, filter, user) = Len(old) - Len(new)

\* C18: deleteOne(filter), called by a user whose write goes through, removes
\* every document that matches the filter: afterwards none matches, every
\* document that did not match is still there, and the returned count is the
\* number of documents removed.
C18_DeleteRemovesAllMatches == [][DeleteRemovesAllMatches]_vars

\* both generated identifiers were stored and a delete has emptied the
\* collection: two matching documents went in one call or in two
C18_Witness ==
    /\ HasColl(TestOne)
    /\ idCount = 2
    /\ Docs(TestOne) = <<>>

----------------------------------------------------------------------------
(* The order of a collection: a memory-mode store started on the files of  *)
(* an earlier run, so that test.one holds a document before the first call *)

StoredRun ==
    [path \in {<<<<"auth">>, <<"users">>>>, <<<<"test">>, <<"one">>>>} |->
        IF path[1] = <<"auth">> THEN <<AdminUserDoc(PersistedId)>> ELSE <<PersistedDoc>>]

DocsOrder == {[name |-> "Alpha"], [name |-> "Beta"], [city |-> "Gamma"]}

UsersOrder == {NoUser, Admin}

\* new JSM({ storageMode: 'memory' }) on that storage path
InitOrder ==
    /\ storageMode = "memory"
    /\ _databases = <<>>
    /\ _collections = <<>>
    /\ _indexes = <<>>
    /\ _changedCollections = <<>>
    /\ sinceActivity = 0
    /\ _idleTimer = FALSE
    /\ _isDumping = FALSE
    /\ _isInitialized = FALSE
    /\ disk = StoredRun
    /\ procs = [p \in Procs |-> Idle]
    /\ idCount = 0
    /\ closed = FALSE
    /\ event = NoEvent

NextOrder ==
    \/ initialize
    \/ _isInitialized /\ Select(<<"test">>, <<"one">>)
    \/ _isInitialized /\ \E doc \in DocsOrder, user \in UsersOrder :
            insertOne(<<"test">>, <<"one">>, doc, user)
    \/ _isInitialized /\ \E d1 \in DocsOrder, d2 \in DocsOrder, user \in UsersOrder :
            insertMany(<<"test">>, <<"one">>, <<d1, d2>>, user)
    \/ _isInitialized /\ \E filter \in FiltersIdx, update \in UpdatesIdx,
                            upsert \in BOOLEAN, user \in UsersOrder :
            updateOne(<<"test">>, <<"one">>, filter, update, upsert, user)
    \/ _isInitialized /\ \E filter \in FiltersIdx, user \in UsersOrder :
            deleteOne(<<"test">>, <<"one">>, filter, user)

SpecOrder == InitOrder /\ [][NextOrder]_vars

\* the identifiers of a list of documents, in its order
Ids(docs) == [i \in DOMAIN docs |-> Get(docs[i], "_id")]

\* any step: the documents that stay keep their relative order and the new
\* ones come after all of them
SurvivorsKeepOrder ==
    (HasColl(TestOne) /\ HasColl(TestOne)') =>
        LET old == Ids(Docs(TestOne))
            new == Ids(Docs(TestOne)')
            kept == FilterSeq(old, SeqToSet(new))
        IN /\ Len(kept) =< Len(new)
           /\ SubSeq(new, 1, Len(kept)) = kept
           /\ \A i \in (Len(kept) + 1) .. Len(new) : new[i] \notin SeqToSet(old)

\* updateOne that matches moves nothing
UpdateKeepsPlace ==
    \A filter \in FiltersIdx, update \in UpdatesIdx, user \in UsersOrder :
        (/\ HasColl(TestOne)
         /\ MatchedIndex(Docs(TestOne), filter) # 0
         /\ updateOne(<<"test">>, <<"one">>, filter, update, FALSE, user))
        => Ids(Docs(TestOne)') = Ids(Docs(TestOne))

\* insertMany appends in the order of its argument, and find({}) shows it
InsertManyAppends ==
    \A d1 \in DocsOrder, d2 \in DocsOrder, user \in UsersOrder :
        (HasColl(TestOne) /\ insertMany(<<"test">>, <<"one">>, <<d1, d2>>, user))
        => LET newDocs == insertManyReturn(TestOne, <<d1, d2>>, user) IN
           /\ Docs(TestOne)' = Docs(TestOne) \o newDocs
           /\ find(TestOne, EmptyObject, NoUser)' = Docs(TestOne) \o newDocs

\* C19: the collection is in insertion order: insertOne, insertMany and the
\* upsert only append (insertMany in the order of its argument), updateOne
\* moves no document, deleteOne keeps the order of the documents that stay,
\* and find({}) after insertMany is the earlier documents followed by the
\* inserted ones.
C19_InsertionOrder ==
    [][SurvivorsKeepOrder /\ UpdateKeepsPlace /\ InsertManyAppends]_vars

\* the stored document and the two of one insertMany, in that order
C19_Witness ==
    /\ HasColl(TestOne)
    /\ Ids(Docs(TestOne)) = <<PersistedId, _generateUniqueId(1), _generateUniqueId(2)>>

----------------------------------------------------------------------------
(* registerUser.  A call suspended at bcrypt.hash is an invocation of kind *)
(* "register" with pc "hash"; buf holds the document it is going to insert *)

Usernames == {"admin", "alice", "bob"}

DefaultRoles == "[*: read]"        \* the role given when none is passed

RolesGiven == {"[]", "[test: read, write]"}

\* registerUser(username, password, roles) up to await bcrypt.hash: the
\* lookup of an existing user, the error, the default role
registerUser(username, roles) ==
    LET selected == IF HasColl(AuthUsers) THEN _collections
                    ELSE Append(_collections, [name |-> AuthUsers, docs |-> <<>>])
        existingUsers == IF HasColl(AuthUsers)
                         THEN find(AuthUsers, [username |-> [lit |-> username]], NoUser)
                         ELSE <<>>
    IN
    /\ _databases' = SetAdd(_databases, <<"auth">>)
    /\ _collections' = selected
    /\ IF Len(existingUsers) > 0
       THEN /\ event' = [type |-> "registerFailed", username |-> username]
            /\ UNCHANGED procs
       ELSE /\ FreeProcs # {}
            /\ procs' = [procs EXCEPT ![NewProc] =
                            [Idle EXCEPT !.kind = "register", !.pc = "hash",
                                         !.buf = <<[username |-> username,
                                                    password |-> "hash(password)",
                                                    roles |-> IF roles = "[]"
                                                              THEN DefaultRoles
                                                              ELSE roles]>>]]
            /\ event' = NoEvent
    /\ UNCHANGED <<storageMode, _indexes, _changedCollections, sinceActivity, _idleTimer,
                   _isDumping, _isInitialized, disk, idCount, closed>>

\* bcrypt.hash resolves: this.db('auth').collection('users').insertOne(doc)
HashDone(p) ==
    LET docs == IF HasColl(AuthUsers) THEN Docs(AuthUsers) ELSE <<>> IN
    /\ procs[p].kind = "register"
    /\ idCount < MaxIds
    /\ _databases' = SetAdd(_databases, <<"auth">>)
    /\ _collections' =
            PutColl(_collections, AuthUsers,
                    Push(docs, <<WithId(procs[p].buf[1], _generateUniqueId(idCount + 1))>>))
    /\ _changedCollections' = SetAdd(_changedCollections, AuthUsers)
    /\ sinceActivity' = updateActivity
    /\ idCount' = idCount + 1
    /\ procs' = [procs EXCEPT ![p] = Idle]
    /\ event' = [type |-> "registered", username |-> procs[p].buf[1].username]
    /\ UNCHANGED <<storageMode, _indexes, _idleTimer, _isDumping, _isInitialized, disk,
                   closed>>

\* a store started on the files of an earlier run, which hold the admin user;
\* its callers await initialize() before they register users
InitAuth == InitOrder

NextAuth ==
    \/ initialize
    \/ _isInitialized /\ \E username \in Usernames, roles \in RolesGiven :
            registerUser(username, roles)
    \/ \E p \in Procs : HashDone(p)

SpecAuth == InitAuth /\ [][NextAuth]_vars

\* the usernames of auth.users, in its order
StoredUsernames ==
    IF HasColl(AuthUsers)
    THEN [i \in DOMAIN Docs(AuthUsers) |-> Get(Docs(AuthUsers)[i], "username")]
    ELSE <<>>

\* C20: after any interleaving of registerUser calls no two documents of
\* auth.users have the same username: a call for a name that is registered,
\* or that another call is registering, does not insert.
C20_UsernamesUnique ==
    \A i, j \in DOMAIN StoredUsernames :
        i # j => StoredUsernames[i] # StoredUsernames[j]

----------------------------------------------------------------------------
(* Several collections side by side.  The pairs: test / one, and two pairs *)
(* whose names hold a '.': test / one.v2 and test.one / v2                 *)

PairsInd ==
    {<<<<"test">>, <<"one">>>>,
     <<<<"test">>, <<"one", "v2">>>>,
     <<<<"test", "one">>, <<"v2">>>>}

UsersInd == {NoUser, Admin}

\* const fullCollectionName = `${dbName}.${collectionName}`
fullCollectionName(pair) == Dot(pair[1], pair[2])

NextInd ==
    \/ \E pair \in PairsInd : Select(pair[1], pair[2])
    \/ \E pair \in PairsInd, doc \in InputDocs, user \in UsersInd :
            insertOne(pair[1], pair[2], doc, user)
    \/ \E pair \in PairsInd, doc \in InputDocs, user \in UsersInd :
            insertMany(pair[1], pair[2], <<doc>>, user)
    \/ \E pair \in PairsInd, filter \in Filters, update \in Updates,
          upsert \in BOOLEAN, user \in UsersInd :
            updateOne(pair[1], pair[2], filter, update, upsert, user)
    \/ \E pair \in PairsInd, filter \in Filters, user \in UsersInd :
            deleteOne(pair[1], pair[2], filter, user)
    \/ \E pair \in PairsInd, user \in UsersInd :
            createIndex(pair[1], pair[2], "name", user)

SpecInd == InitFacade /\ [][NextInd]_vars

\* what a pair's handle shows: its documents, its indexes, its dirty flag
DocsOf(pair) ==
    IF HasColl(fullCollectionName(pair)) THEN Docs(fullCollectionName(pair)) ELSE <<>>

IndexesOf(pair) ==
    IF fullCollectionName(pair) \in DOMAIN _indexes
    THEN _indexes[fullCollectionName(pair)]
    ELSE <<>>

IsDirty(pair) == fullCollectionName(pair) \in SeqToSet(_changedCollections)

\* a step of one of the five writing operations issued on the pair
IssuedOn(pair) ==
    \/ \E doc \in InputDocs, user \in UsersInd : insertOne(pair[1], pair[2], doc, user)
    \/ \E doc \in InputDocs, user \in UsersInd :
            insertMany(pair[1], pair[2], <<doc>>, user)
    \/ \E filter \in Filters, update \in Updates, upsert \in BOOLEAN, user \in UsersInd :
            updateOne(pair[1], pair[2], filter, update, upsert, user)
    \/ \E filter \in Filters, user \in UsersInd : deleteOne(pair[1], pair[2], filter, user)
    \/ \E user \in UsersInd : createIndex(pair[1], pair[2], "name", user)

OtherPairUntouched ==
    \A pair \in PairsInd, other \in PairsInd :
        (other # pair /\ IssuedOn(pair)) =>
            /\ DocsOf(other)' = DocsOf(other)
            /\ IndexesOf(other)' = IndexesOf(other)
            /\ IsDirty(other)' = IsDirty(other)

\* C21: an insertOne, insertMany, updateOne, deleteOne or createIndex issued
\* on one (database name, collection name) pair leaves the documents, the
\* indexes and the dirty flag of every other pair as they were, the pairs
\* whose names hold a '.' included.
C21_CollectionsIndependent == [][OtherPairUntouched]_vars

----------------------------------------------------------------------------
(* updateOne on a match: a memory-mode store started on the files of an    *)
(* earlier run, with filters and updates that carry an _id                 *)

Editor == [username |-> "editor",
           roles |-> <<[resource |-> <<"test">>, permissions |-> {"write"}]>>]

UsersUpd == {NoUser, Admin, Editor, Reader}

NextUpd ==
    \/ initialize
    \/ _isInitialized /\ Select(<<"test">>, <<"one">>)
    \/ _isInitialized /\ \E doc \in DocsFacade, user \in UsersUpd :
            insertOne(<<"test">>, <<"one">>, doc, user)
    \/ _isInitialized /\ \E d1 \in DocsFacade, d2 \in DocsFacade, user \in UsersUpd :
            insertMany(<<"test">>, <<"one">>, <<d1, d2>>, user)
    \/ _isInitialized /\ \E filter \in FiltersFacade, update \in UpdatesFacade,
                            upsert \in BOOLEAN, user \in UsersUpd :
            updateOne(<<"test">>, <<"one">>, filter, update, upsert, user)
    \/ _isInitialized /\ \E filter \in FiltersFacade, user \in UsersUpd :
            deleteOne(<<"test">>, <<"one">>, filter, user)

SpecUpd == InitOrder /\ [][NextUpd]_vars

\* the users whose updateOne reaches the match phase
Updaters == {user \in UsersUpd :
                ~(IsAbsent(user) \/ ~checkPermission(user, TestOne, "write"))}

\* the documents of a list that match the filter, by position
MatchingPositions(docs, filter) == {i \in DOMAIN docs : _matchQuery(docs[i], filter)}

\* the fields of an update without its _id
FieldsGiven(fields) == (DOMAIN fields) \ {"_id"}

\* the target after the update, field by field
TargetUpdated(old, new, update) ==
    /\ Get(new, "_id") = Get(old, "_id")
    /\ IF "set" \in DOMAIN update
       THEN /\ DOMAIN new = (DOMAIN old) \cup FieldsGiven(update.set) \cup {"_id"}
            /\ \A f \in FieldsGiven(update.set) : new[f] = update.set[f]
            /\ \A f \in (DOMAIN old) \ FieldsGiven(update.set) : new[f] = old[f]
       ELSE /\ DOMAIN new = FieldsGiven(update.doc) \cup {"_id"}
            /\ \A f \in FieldsGiven(update.doc) : new[f] = update.doc[f]

UpdateChangesFirstMatchOnly ==
    \A filter \in FiltersFacade, update \in UpdatesFacade, upsert \in BOOLEAN,
       user \in Updaters :
        (/\ HasColl(TestOne)
         /\ MatchingPositions(Docs(TestOne), filter) # {}
         /\ updateOne(<<"test">>, <<"one">>, filter, update, upsert, user))
        => LET old == Docs(TestOne)
               new == Docs(TestOne)'
               first == CHOOSE i \in MatchingPositions(old, filter) :
                            \A j \in MatchingPositions(old, filter) : i =< j
           IN /\ Len(new) = Len(old)
              /\ Ids(new) = Ids(old)
              /\ \A i \in DOMAIN old : i # first => new[i] = old[i]
              /\ TargetUpdated(old[first], new[first], update)
              /\ TestOne \in SeqToSet(_changedCollections')
              /\ updateOneReturn(TestOne, filter, update, upsert, user).matchedCount = 1

\* C22: updateOne whose filter matches at least one document changes only the
\* first matching document in collection order: the length and the sequence
\* of identifiers stay, every other document (later matches included) is as
\* it was, the target keeps its identifier whatever _id the update carries, a
\* $set keeps the target's other fields, a replacement leaves the update's
\* fields plus the identifier, and the collection is marked dirty.
C22_UpdateChangesFirstMatchOnly == [][UpdateChangesFirstMatchOnly]_vars

\* the stored document has been patched by the $set that carries an _id and
\* has kept its identifier, and a later document that matched the same filter
\* is as it was inserted
C22_Witness ==
    /\ HasColl(TestOne)
    /\ Len(Docs(TestOne)) >= 2
    /\ Docs(TestOne)[1] = [_id |-> PersistedId, name |-> "Alpha", city |-> "Gamma"]
    /\ \E i \in 2 .. Len(Docs(TestOne)) :
            /\ Get(Docs(TestOne)[i], "name") = "Alpha"
            /\ "city" \notin DOMAIN Docs(TestOne)[i]

----------------------------------------------------------------------------
(* The query matcher under find: one collection in memory mode, filters of *)
(* up to two fields built from literal and operator clauses                *)

\* the case labels of the switch
RecognizedOperators == {"$eq", "$ne", "$gt", "$gte", "$lt", "$lte", "$in", "$nin"}

Clause(op, arg) == [ops |-> <<[op |-> op, arg |-> arg]>>]

\* a literal; operators that compare; an operator the switch does not know,
\* alone and after one that passes; $in and $nin with an array and with a
\* string; the operator object without keys
ClausesMatch ==
    {[lit |-> "Alpha"],
     Clause("$gte", [val |-> "Alpha"]),
     Clause("$ne", [val |-> "Gamma"]),
     Clause("$regex", [val |-> "Alpha"]),
     [ops |-> <<[op |-> "$ne", arg |-> [val |-> "Gamma"]],
                [op |-> "$exists", arg |-> [val |-> "Alpha"]]>>],
     Clause("$in", [list |-> {"Alpha", "Beta"}]),
     Clause("$in", [val |-> "Alpha"]),
     Clause("$nin", [list |-> {"Alpha"}]),
     Clause("$nin", [val |-> "Alpha"]),
     [ops |-> <<>>]}

FieldsMatch == {"name", "city"}

\* {}, the one-field and the two-field filters
QueriesMatch ==
    UNION {[fields -> ClausesMatch] : fields \in SUBSET FieldsMatch}

DocsMatch == {[name |-> "Alpha"], [name |-> "Beta", city |-> "Gamma"], [city |-> "Gamma"]}

\* the callers of find: no user, and the user whose grant is read on test.one
UsersMatch == {NoUser, Reader}

\* collection.find(query, user), its result kept for the caller
findCall(dbName, collectionName, query, user) ==
    /\ event' = [type |-> "find", query |-> query, user |-> user,
                 results |-> find(Dot(dbName, collectionName), query, user)]
    /\ UNCHANGED <<storageMode, _databases, _collections, _indexes, _changedCollections,
                   sinceActivity, _idleTimer, _isDumping, _isInitialized, disk, procs,
                   idCount, closed>>

NextMatch ==
    \/ Select(<<"test">>, <<"one">>)
    \/ \E doc \in DocsMatch : insertOne(<<"test">>, <<"one">>, doc, NoUser)
    \/ \E d1 \in DocsMatch, d2 \in DocsMatch :
            insertMany(<<"test">>, <<"one">>, <<d1, d2>>, NoUser)
    \/ createIndex(<<"test">>, <<"one">>, "name", NoUser)
    \/ \E query \in QueriesMatch, user \in UsersMatch :
            findCall(<<"test">>, <<"one">>, query, user)

SpecMatch == InitIdx /\ [][NextMatch]_vars

\* the filter of one field of a filter
OneField(query, field) == [f \in {field} |-> query[f]]

\* the clause is an operator object with a key the switch does not know, or
\* with $in / $nin and a comparison value that is not an array
FailsClosed(clause) ==
    /\ ~IsLiteral(clause)
    /\ \E i \in DOMAIN clause.ops :
            \/ clause.ops[i].op \notin RecognizedOperators
            \/ /\ clause.ops[i].op \in {"$in", "$nin"}
               /\ "list" \notin DOMAIN clause.ops[i].arg

\* the documents of test.one, none when the collection is not there
DocsNow == IF HasColl(TestOne) THEN Docs(TestOne) ELSE <<>>

\* no index was built for test.one
NoIndexes == TestOne \notin DOMAIN _indexes

MatcherFailsClosed ==
    \A query \in QueriesMatch, i \in DOMAIN DocsNow :
        /\ (query = EmptyObject) => _matchQuery(DocsNow[i], query)
        /\ _matchQuery(DocsNow[i], query)
                <=> \A f \in DOMAIN query : _matchQuery(DocsNow[i], OneField(query, f))
        /\ (\E f \in DOMAIN query : FailsClosed(query[f]))
                => ~_matchQuery(DocsNow[i], query)

FindFailsClosed ==
    (event.type = "find" /\ NoIndexes) =>
        /\ event.results = SelectSeq(DocsNow, LAMBDA d : _matchQuery(d, event.query))
        /\ (\E f \in DOMAIN event.query : FailsClosed(event.query[f]))
                => event.results = <<>>

\* C23: the matcher decides every filter: {} matches every document, a filter
\* of several fields matches exactly when each of its fields does, and a field
\* whose operator object has a key outside $eq $ne $gt $gte $lt $lte $in $nin,
\* or $in / $nin with a value that is not an array, makes the document fail;
\* find with such a filter on a collection without indexes returns [].
C23_MatcherFailsClosed == MatcherFailsClosed /\ FindFailsClosed

\* find was called on two stored documents, by the reader, with a two-field
\* filter: one clause passes every document, the other holds an
\* operator the switch does not know, and the result is empty
C23_Witness ==
    /\ event.type = "find"
    /\ NoIndexes
    /\ Len(DocsNow) = 2
    /\ event.user = Reader
    /\ event.query = [f \in FieldsMatch |->
                        IF f = "name" THEN [ops |-> <<>>]
                        ELSE Clause("$regex", [val |-> "Alpha"])]
    /\ event.results = <<>>

----------------------------------------------------------------------------
(* The idle timer *)

\* a timer callback has called _dumpChangedCollections: a free slot of the
\* invocations holds a pass of kind "timer"
TimerPassStarts ==
    \E p \in Procs : procs[p].kind = "none" /\ procs'[p].kind = "timer"

\* a step of insertOne, insertMany, updateOne or deleteOne by one of the callers
MutatingCall ==
    \/ \E doc \in InputDocs, user \in Users : insertOne(<<"test">>, <<"one">>, doc, user)
    \/ \E doc \in InputDocs, user \in Users :
            insertMany(<<"test">>, <<"one">>, <<doc>>, user)
    \/ \E filter \in Filters, update \in Updates, upsert \in BOOLEAN, user \in Users :
            updateOne(<<"test">>, <<"one">>, filter, update, upsert, user)
    \/ \E filter \in Filters, user \in Users : deleteOne(<<"test">>, <<"one">>, filter, user)

\* a close() call is suspended at one of its awaits
CloseInFlight == \E p \in Procs : procs[p].kind = "close"

StartsOnlyWhenIdle ==
    TimerPassStarts =>
        /\ storageMode = "disk"
        /\ Len(_changedCollections) > 0
        /\ sinceActivity > IdleTimeout
        /\ _idleTimer
        /\ ~closed
        /\ ~CloseInFlight

\* a call that inserted, updated, upserted or deleted sets the clock to zero;
\* apart from that the clock only advances with time
SuccessResetsClock ==
    /\ (MutatingCall /\ _collections' # _collections /\ storageMode = "disk")
            => sinceActivity' = 0
    /\ sinceActivity' # sinceActivity => (Tick \/ MutatingCall)

\* close() disarms the timer, and only initialize() arms it
CloseCancels ==
    /\ close => ~_idleTimer'
    /\ (~_idleTimer /\ _idleTimer') => initialize

\* once close() has been called the timer is not armed
CancelledStaysCancelled == (closed \/ CloseInFlight) => ~_idleTimer

----------------------------------------------------------------------------
(* Operator filters on an indexed field *)

\* the filters of the one field whose value is an operator object with an entry
OperatorQueries(field) ==
    {query \in QueriesMatch :
        /\ DOMAIN query = {field}
        /\ ~IsLiteral(query[field])
        /\ query[field].ops # <<>>}

\* C25: with the index on name as createIndex just built it, find with a
\* filter { name: <operator object> } returns what find returns without the
\* index: the documents the full scan accepts, in collection order.
C25_IndexKeepsOperatorAnswer ==
    (/\ event.type = "find"
     /\ event.query \in OperatorQueries("name")
     /\ FreshIndex(TestOne, "name"))
    => event.results = Scan(Docs(TestOne), event.query)

====
